---- MODULE Spec2Model ----
(***************************************************************************)
(* Model of the synthesis job pipeline of voice_bot/modules/bot_handlers.py *)
(*                                                                         *)
(* Two threads run one asyncio event loop each:                            *)
(*   - the front loop (the Application's loop) runs the update handlers,   *)
(*     start_gen_task, post_eval_gen_report_error and whatever             *)
(*     app.create_task is asked to run from the front thread;              *)
(*   - the worker loop (tts_work_thread.loop) runs run_gen_audio, the      *)
(*     completion of the cross-thread future and whatever app.create_task  *)
(*     is asked to run from the worker thread (asyncio.create_task binds    *)
(*     a task to the loop that is running in the calling thread).          *)
(* A coroutine runs atomically on its loop from one await to the next.     *)
(* The worker loop's ready queue is FIFO (wq); front tasks wait on network *)
(* I/O between their steps and resume in any order.                        *)
(***************************************************************************)
EXTENDS Integers, Sequences, FiniteSets, TLC

\* ---------------------------------------------------------------- bounds
NJobs == 2          \* number of requests (updates) considered
MaxSamples == 2     \* largest settings.samples_num considered
MaxTime == 1        \* int(time.time()) takes the values 0..MaxTime
MAX_CHARS_NUM == 2  \* the caption limit of modules.bot_utils, scaled down
MaxOver == 1        \* the longest text has MAX_CHARS_NUM + MaxOver characters

Jobs == 1..NJobs

VARIABLES
    now,         \* int(time.time()) at its last reading
    hpc,         \* per request: position of its handler / start_gen_task
    oggname,     \* per voice request: timestamp of its temporary .ogg file (-1: none)
    payload,     \* per job: what start_gen_task was given as data
    data,        \* per job: the data of run_gen_audio (a text, or the raw audio)
    engine,      \* per job: the call of tts_audio_from_text
    samples_num, \* per job: settings.samples_num read by start_gen_task
    fname,       \* per job: the timestamp part of filename_result
    fcur,        \* job whose start_gen_task occupies the front thread (0: none)
    fut,         \* per job: state of the concurrent.futures.Future
    cb,          \* per job: eval_gen_task registered as done callback
    evals,       \* per job: number of calls of eval_gen_task
    wq,          \* ready queue of the worker loop
    running,     \* jobs whose run_gen_audio has begun and not returned
    files,       \* sample files present in RESULTS_PATH: <<timestamp, index>>
    prog,        \* per job: state of the progress message
    rep,         \* per job: position of the failure route
    ppc,         \* per job: position of post_eval_gen_task
    ploop,       \* per job: loop that runs post_eval_gen_task and its children
    pidx,        \* per job: sample_ind of post_eval_gen_task
    dpc,         \* per job: position of the delete_progress_msg task
    captions,    \* per job: the captions of the result messages sent
    log,         \* per job: what post_eval_gen_task and its children did, in order
    rlog,        \* per job: what post_eval_gen_report_error did, in order
    submitted,   \* jobs in the order of run_coroutine_threadsafe
    started,     \* jobs in the order run_gen_audio began
    finished     \* jobs in the order run_gen_audio returned

vars == <<now, hpc, samples_num, fname, fcur, fut, cb, evals, wq, running, files,
          prog, rep, ppc, ploop, pidx, dpc, log, rlog, submitted, started,
          finished, oggname, payload, data, engine, captions>>

\* ---------------------------------------------------------------- texts
\* A text is a sequence of code points. The letters 97, 98, ... are accepted
\* by validate_text, 35 is a symbol it rejects, 46 is the full stop.
Text(n) == [i \in 1..n |-> 96 + i]

InvalidText == <<35>>

\* a text at the caption limit, and the texts beyond it
ShortText == Text(MAX_CHARS_NUM)

LongTexts == {Text(MAX_CHARS_NUM + d) : d \in 1..MaxOver}

\* the samples load() returns for a voice message: an ndarray, longer than
\* any caption
AudioData == [i \in 1..(MAX_CHARS_NUM + 1) |-> -1]

\* isinstance(data, ndarray)
IsArray(d) == d = AudioData

\* validate_text of modules.bot_utils: the text has no unacceptable symbol
validate_text(t) == \A i \in 1..Len(t) : t[i] # 35

\* an elision that drops the marker
ElideNoMarker(t) ==
    IF Len(t) > MAX_CHARS_NUM THEN SubSeq(t, 1, MAX_CHARS_NUM) ELSE t

\* lines 266-267: text = f"{text[:MAX_CHARS_NUM]}..." when it is too long
Elide(t) ==
    IF Len(t) > MAX_CHARS_NUM
    THEN SubSeq(t, 1, MAX_CHARS_NUM) \o <<46, 46, 46>>
    ELSE t

\* ---------------------------------------------------------------- helpers
Logged(j, evs) == [log EXCEPT ![j] = @ \o evs]

RLogged(j, evs) == [rlog EXCEPT ![j] = @ \o evs]

RECURSIVE CountIn(_, _)
CountIn(s, e) ==
    IF s = <<>> THEN 0
    ELSE (IF Head(s)[1] = e THEN 1 ELSE 0) + CountIn(Tail(s), e)

Count(j, e) == CountIn(log[j], e) + CountIn(rlog[j], e)

\* position of the first event e in the log of j (0: absent)
FirstOf(j, e) ==
    IF \E i \in 1..Len(log[j]) : log[j][i][1] = e
    THEN CHOOSE i \in 1..Len(log[j]) :
            /\ log[j][i][1] = e
            /\ \A k \in 1..(i - 1) : log[j][k][1] # e
    ELSE 0

\* sample indices delivered for j, in the order of delivery
Delivered(j) ==
    LET d == SelectSeq(log[j], LAMBDA ev : ev[1] = "deliver")
    IN  [i \in 1..Len(d) |-> d[i][2]]

\* sample_file of post_eval_gen_task
sample_file(j, k) == <<fname[j], k>>

\* the files tts_audio_from_text writes for job j
ResultFiles(j) == {sample_file(j, k) : k \in 0..(samples_num[j] - 1)}

\* clear_dir(RESULTS_PATH): the whole directory is emptied
clear_dir(fs) == {}

\* a ready queue that hands out the newest callback first
EnqueueFront(q, item) == <<item>> \o q

\* loop.call_soon / call_soon_threadsafe: the ready queue is FIFO
Enqueue(q, item) == Append(q, item)

\* a worker that takes its next callback while run_gen_audio is executing
WorkerIdleAlways == TRUE

\* the worker loop takes its next callback only when the previous returned
WorkerIdle == running = {}

\* app.create_task from a coroutine or callback running on loop L
CreateOn(L, q, item) == IF L = "worker" THEN Enqueue(q, item) ELSE q

Init ==
    /\ now = 0
    /\ hpc = [j \in Jobs |-> "new"]
    /\ samples_num = [j \in Jobs |-> 0]
    /\ fname = [j \in Jobs |-> 0]
    /\ fcur = 0
    /\ fut = [j \in Jobs |-> "none"]
    /\ cb = [j \in Jobs |-> FALSE]
    /\ evals = [j \in Jobs |-> 0]
    /\ wq = <<>>
    /\ running = {}
    /\ files = {}
    /\ prog = [j \in Jobs |-> "none"]
    /\ rep = [j \in Jobs |-> "none"]
    /\ ppc = [j \in Jobs |-> "none"]
    /\ ploop = [j \in Jobs |-> "none"]
    /\ pidx = [j \in Jobs |-> 0]
    /\ dpc = [j \in Jobs |-> "none"]
    /\ log = [j \in Jobs |-> <<>>]
    /\ rlog = [j \in Jobs |-> <<>>]
    /\ submitted = <<>>
    /\ started = <<>>
    /\ finished = <<>>
    /\ oggname = [j \in Jobs |-> -1]
    /\ payload = [j \in Jobs |-> "none"]
    /\ data = [j \in Jobs |-> <<>>]
    /\ engine = [j \in Jobs |-> "none"]
    /\ captions = [j \in Jobs |-> <<>>]

\* ---------------------------------------------------------------- front: handler
\* the requests are numbered in the order of their arrival
Arrives(j) == hpc[j] = "new" /\ (IF j = 1 THEN TRUE ELSE hpc[j - 1] # "new")

\* a handler replies with an error or a hint and returns
Reject(j) ==
    /\ hpc' = [hpc EXCEPT ![j] = "rejected"]
    /\ UNCHANGED <<prog, payload, data>>

\* create_progress_msg, then app.create_task(start_gen_task(..., d, prog_msg))
Accept(j, kind, d) ==
    /\ hpc' = [hpc EXCEPT ![j] = "task"]
    /\ prog' = [prog EXCEPT ![j] = "active"]
    /\ payload' = [payload EXCEPT ![j] = kind]
    /\ data' = [data EXCEPT ![j] = d]

\* gen_audio_cmd: no arguments (the empty text), or a text that validate_text
\* accepts or rejects
gen_audio_cmd(j) ==
    /\ fcur = 0
    /\ Arrives(j)
    /\ \E t \in {<<>>, ShortText, InvalidText} :
         IF t # <<>> /\ validate_text(t)
         THEN Accept(j, "text", t)
         ELSE Reject(j)
    /\ UNCHANGED <<now, samples_num, fname, fcur, fut, cb, evals, wq, running,
                   files, rep, ppc, ploop, pidx, dpc, log, submitted, started,
                   finished, rlog,
                   oggname, engine, captions>>

\* ---------------------------------------------------------------- events
Ev(name) == <<name, 0, 0, "">>

\* message.message_id of the message that started job j
message_id(j) == j

\* message.reply_voice(voice=audio, caption=text, reply_to_message_id=..., reply_markup=...)
reply_voice(j, k) == <<"deliver", k, message_id(j), "Regenerate">>

\* delete_progress_msg: msg.delete(); a TelegramError (message already gone) is logged
delete_progress_msg(j) ==
    IF prog[j] = "active" THEN <<Ev("remove")>> ELSE <<Ev("remove"), Ev("remove_failed")>>

\* ---------------------------------------------------------------- completion callback
\* eval_gen_task called in thread L with the worker queue q: future.result() is the
\* tuple run_gen_audio returns (it catches every Exception), so the else branch runs
\* gen_audio_inline: with the inline mode off the handler replies with a hint;
\* otherwise the text of the message, of any length, is validated
gen_audio_inline(j) ==
    /\ fcur = 0
    /\ Arrives(j)
    /\ \E inline_toggle \in BOOLEAN, t \in {ShortText, InvalidText} \cup LongTexts :
         IF inline_toggle /\ validate_text(t)
         THEN Accept(j, "text", t)
         ELSE Reject(j)
    /\ UNCHANGED <<now, samples_num, fname, fcur, fut, cb, evals, wq, running,
                   files, rep, ppc, ploop, pidx, dpc, log, rlog, submitted,
                   started, finished, oggname, engine, captions>>

\* the captions of the result messages a user may press Regenerate on
Captions == {ShortText, InvalidText}

\* retry_button: the caption of the message is submitted as it is
retry_button(j) ==
    /\ fcur = 0
    /\ Arrives(j)
    /\ \E t \in Captions : Accept(j, "text", t)
    /\ UNCHANGED <<now, samples_num, fname, fcur, fut, cb, evals, wq, running,
                   files, rep, ppc, ploop, pidx, dpc, log, rlog, submitted,
                   started, finished, oggname, engine, captions>>

\* the path of the temporary voice file: {user.id}_{int(time.time())}.ogg
temp_file(j) == <<oggname[j], -1>>

\* gen_audio_from_voice up to the download: a message without a voice raises;
\* otherwise the temporary file is opened for writing
gen_audio_from_voice(j) ==
    /\ fcur = 0
    /\ Arrives(j)
    /\ \E voice \in BOOLEAN :
         IF voice
         THEN \E t \in now..MaxTime :
                 /\ now' = t
                 /\ oggname' = [oggname EXCEPT ![j] = t]
                 /\ files' = files \cup {<<t, -1>>}
                 /\ hpc' = [hpc EXCEPT ![j] = "voice"]
         ELSE /\ hpc' = [hpc EXCEPT ![j] = "raised"]
              /\ UNCHANGED <<now, oggname, files>>
    /\ UNCHANGED <<samples_num, fname, fcur, fut, cb, evals, wq, running, prog,
                   rep, ppc, ploop, pidx, dpc, log, rlog, submitted, started,
                   finished, payload, data, engine, captions>>

\* a handler that removes the file only where the download failed
KeepOnSuccess(ok, fs, f) == IF ok THEN fs ELSE fs \ {f}

\* lines 179-183: remove_temp_file in the except branch and in the finally
\* branch, so whether the download and the load succeeded or not
remove_temp_file(ok, fs, f) == fs \ {f}

\* gen_audio_from_voice from the download on: get_file, download_to_drive
\* and load succeed, or one of them raises and the handler raises
gen_audio_from_voice_load(j) ==
    /\ hpc[j] = "voice"
    /\ \E ok \in BOOLEAN :
         /\ files' = remove_temp_file(ok, files, temp_file(j))
         /\ IF ok
            THEN Accept(j, "audio", AudioData)
            ELSE /\ hpc' = [hpc EXCEPT ![j] = "raised"]
                 /\ UNCHANGED <<prog, payload, data>>
    /\ UNCHANGED <<now, samples_num, fname, fcur, fut, cb, evals, wq, running,
                   rep, ppc, ploop, pidx, dpc, log, rlog, submitted, started,
                   finished, oggname, engine, captions>>

eval_gen_task(j, L, q) ==
    /\ evals' = [evals EXCEPT ![j] = @ + 1]
    /\ ppc' = [ppc EXCEPT ![j] = "new"]
    /\ ploop' = [ploop EXCEPT ![j] = L]
    /\ wq' = CreateOn(L, q, <<"post", j>>)

\* ---------------------------------------------------------------- front: start_gen_task
\* lines 209-213: filename_result, settings, run_coroutine_threadsafe; the
\* clock is read here only, so the time that passed since the last reading
\* passes in this step
start_gen_task(j) ==
    /\ fcur = 0
    /\ hpc[j] = "task"
    /\ \E n \in 0..MaxSamples : samples_num' = [samples_num EXCEPT ![j] = n]
    /\ \E t \in now..MaxTime :
         /\ now' = t
         /\ fname' = [fname EXCEPT ![j] = t]
    /\ wq' = Enqueue(wq, <<"run", j>>)
    /\ fut' = [fut EXCEPT ![j] = "pending"]
    /\ hpc' = [hpc EXCEPT ![j] = "submitted"]
    /\ fcur' = j
    /\ submitted' = Append(submitted, j)
    /\ UNCHANGED <<cb, evals, running, files, prog, rep, ppc, ploop, pidx, dpc,
                   log, started, finished, rlog,
                   oggname, payload, data, engine, captions>>

\* a future that never reports to add_done_callback that it is done
FutureDoneNever(j) == FALSE

\* Future.add_done_callback looks at the state of the future under its lock
FutureDone(j) == fut[j] = "done"

\* line 214: future.add_done_callback(eval_gen_task); a future that is already
\* done calls the callback at once, in the calling (front) thread
add_done_callback(j) ==
    /\ fcur = j
    /\ hpc[j] = "submitted"
    /\ fcur' = 0
    /\ hpc' = [hpc EXCEPT ![j] = "registered"]
    /\ IF FutureDone(j)
       THEN /\ eval_gen_task(j, "front", wq)
            /\ cb' = cb
       ELSE /\ cb' = [cb EXCEPT ![j] = TRUE]
            /\ UNCHANGED <<evals, ppc, ploop, wq>>
    /\ UNCHANGED <<now, samples_num, fname, fut, running, files, prog, rep, pidx,
                   dpc, log, submitted, started, finished, rlog,
                   oggname, payload, data, engine, captions>>

\* ---------------------------------------------------------------- worker: run_gen_audio
\* the worker loop starts the task of run_gen_audio
run_gen_audio_begin(j) ==
    /\ WorkerIdle
    /\ wq # <<>>
    /\ Head(wq) = <<"run", j>>
    /\ wq' = Tail(wq)
    /\ running' = running \cup {j}
    /\ started' = Append(started, j)
    /\ UNCHANGED <<now, hpc, samples_num, fname, fcur, fut, cb, evals, files,
                   prog, rep, ppc, ploop, pidx, dpc, log, submitted, finished, rlog,
                   oggname, payload, data, engine, captions>>

\* a worker loop that loses its ready queue when a job raises
AfterReturnCrash(j, ok, q) == IF ok THEN Enqueue(q, <<"setres", j>>) ELSE <<>>

\* run_gen_audio returns, whether the engine raised or not (the except of line
\* 227 catches every Exception): the loop goes on with its queue and the
\* completion of the task
AfterReturn(j, ok, q) == Enqueue(q, <<"setres", j>>)

\* an engine that is called whatever validate_text said
EngineCallsUnchecked(t) == {"ok", "raised"}

\* lines 222-226: a text that validate_text rejects raises before the engine
\* is called; tts_audio_from_text returns or raises
EngineCalls(t) == IF validate_text(t) THEN {"ok", "raised"} ELSE {"skipped"}

\* what transcribe_voice may return
Transcripts == {ShortText, InvalidText}

\* lines 219-226: the data run_gen_audio ends with and what became of the
\* engine call. Raw audio is transcribed first: transcribe_voice raises (the
\* data stays the audio) or returns a text, which is validated; a text is
\* synthesized as it is.
RunResults(j) ==
    IF IsArray(data[j])
    THEN {[data |-> AudioData, engine |-> "skipped"]}
            \cup UNION {{[data |-> t, engine |-> e] : e \in EngineCalls(t)} :
                           t \in Transcripts}
    ELSE {[data |-> data[j], engine |-> e] : e \in {"ok", "raised"}}

\* tts_audio_from_text returns (the sample files are written) or raises (the
\* failure route is handed to the front loop); run_gen_audio returns either way
run_gen_audio_end(j) ==
    /\ j \in running
    /\ \E r \in RunResults(j) :
         LET ok == r.engine = "ok" IN
         /\ data' = [data EXCEPT ![j] = r.data]
         /\ engine' = [engine EXCEPT ![j] = r.engine]
         /\ IF ok
            THEN /\ files' = files \cup ResultFiles(j)
                 /\ rep' = rep
            ELSE /\ files' = files
                 /\ rep' = [rep EXCEPT ![j] = "handoff"]
         /\ wq' = AfterReturn(j, ok, wq)
    /\ running' = running \ {j}
    /\ finished' = Append(finished, j)
    /\ UNCHANGED <<now, hpc, samples_num, fname, fcur, fut, cb, evals, prog,
                   ppc, ploop, pidx, dpc, log, submitted, started, rlog,
                   oggname, payload, captions>>

\* the worker loop copies the task's result into the concurrent future and
\* calls the callbacks registered so far, in the worker thread
set_result(j) ==
    /\ WorkerIdle
    /\ wq # <<>>
    /\ Head(wq) = <<"setres", j>>
    /\ fut' = [fut EXCEPT ![j] = "done"]
    /\ IF cb[j]
       THEN eval_gen_task(j, "worker", Tail(wq))
       ELSE /\ wq' = Tail(wq)
            /\ UNCHANGED <<evals, ppc, ploop>>
    /\ UNCHANGED <<now, hpc, samples_num, fname, fcur, cb, running, files, prog,
                   rep, pidx, dpc, log, submitted, started, finished, rlog,
                   oggname, payload, data, engine, captions>>

\* ---------------------------------------------------------------- front: failure route
\* handle_post_eval_gen_report_error, run by the front loop after the
\* run_coroutine_threadsafe of line 231: app.create_task(post_eval_gen_report_error)
handle_post_eval_gen_report_error(j) ==
    /\ fcur = 0
    /\ rep[j] = "handoff"
    /\ rep' = [rep EXCEPT ![j] = "task"]
    /\ UNCHANGED <<now, hpc, samples_num, fname, fcur, fut, cb, evals, wq, running,
                   files, prog, ppc, ploop, pidx, dpc, log, submitted, started,
                   finished, rlog,
                   oggname, payload, data, engine, captions>>

\* lines 247-249: clear_dir, logger.error, await delete_progress_msg
post_eval_gen_report_error(j) ==
    /\ fcur = 0
    /\ rep[j] = "task"
    /\ files' = clear_dir(files)
    /\ rlog' = RLogged(j, <<Ev("clear_report")>> \o delete_progress_msg(j))
    /\ prog' = [prog EXCEPT ![j] = "removed"]
    /\ rep' = [rep EXCEPT ![j] = "deleted"]
    /\ UNCHANGED <<now, hpc, samples_num, fname, fcur, fut, cb, evals, wq, running,
                   ppc, ploop, pidx, dpc, submitted, started, finished, log,
                   oggname, payload, data, engine, captions>>

\* lines 250-253: the failure notice
post_eval_gen_report_error_reply(j) ==
    /\ fcur = 0
    /\ rep[j] = "deleted"
    /\ rlog' = RLogged(j, <<Ev("notice_failed")>>)
    /\ rep' = [rep EXCEPT ![j] = "done"]
    /\ UNCHANGED <<now, hpc, samples_num, fname, fcur, fut, cb, evals, wq, running,
                   files, prog, ppc, ploop, pidx, dpc, submitted, started,
                   finished, log,
                   oggname, payload, data, engine, captions>>

\* ---------------------------------------------------------------- post_eval_gen_task
\* a loop that starts at sample 1
SampleRangeFromOne(n) == 1..n

\* a loop that runs once more than asked
SampleRangeInclusive(n) == 0..n

\* range(samples_num)
SampleRange(n) == 0..(n - 1)

\* an except branch that raises before it cleans up
PostCleanupRaiseFirst(failed) ==
    (IF failed THEN <<Ev("raise"), Ev("notice_error")>> ELSE <<>>)
        \o <<Ev("sched_delete"), Ev("clear_post")>>

\* what post_eval_gen_task does after its loop or after an exception in it, in
\* the order of lines 272-274 and 276-277; app.create_task only schedules
\* delete_progress_msg. A TelegramError raised by the task reaches
\* error_handler, which replies to the requester.
PostCleanup(failed) ==
    <<Ev("sched_delete"), Ev("clear_post")>>
        \o (IF failed THEN <<Ev("raise"), Ev("notice_error")>> ELSE <<>>)

\* an except branch that only raises
PostFinishNoCleanup(j, failed, pre, q) ==
    /\ dpc' = [dpc EXCEPT ![j] = IF failed THEN @ ELSE "new"]
    /\ wq' = IF failed THEN q ELSE CreateOn(ploop[j], q, <<"del", j>>)
    /\ files' = IF failed THEN files ELSE clear_dir(files)
    /\ log' = Logged(j, pre \o (IF failed THEN <<Ev("raise"), Ev("notice_error")>>
                                          ELSE PostCleanup(FALSE)))
    /\ ppc' = [ppc EXCEPT ![j] = IF failed THEN "raised" ELSE "done"]
    /\ pidx' = pidx

\* lines 271-277, after the events pre of the same step; q is the worker queue
PostFinish(j, failed, pre, q) ==
    /\ dpc' = [dpc EXCEPT ![j] = "new"]
    /\ wq' = CreateOn(ploop[j], q, <<"del", j>>)
    /\ files' = clear_dir(files)
    /\ log' = Logged(j, pre \o PostCleanup(failed))
    /\ ppc' = [ppc EXCEPT ![j] = IF failed THEN "raised" ELSE "done"]
    /\ pidx' = pidx

\* lines 260-268 for sample_ind = k, up to the await of reply_voice:
\* convert_to_voice / open raise when the sample file is gone
PostIter(j, k, pre, q) ==
    IF k \notin SampleRange(samples_num[j])
    THEN PostFinish(j, FALSE, pre, q)
    ELSE IF sample_file(j, k) \notin files
    THEN PostFinish(j, TRUE, pre, q)
    ELSE /\ ppc' = [ppc EXCEPT ![j] = "wait"]
         /\ pidx' = [pidx EXCEPT ![j] = k]
         /\ log' = Logged(j, pre)
         /\ wq' = q
         /\ UNCHANGED <<dpc, files>>

\* the variable text of post_eval_gen_task at the head of an iteration: the
\* text of the job, or what the previous iteration assigned to it (its caption)
LoopText(j) ==
    IF captions[j] = <<>> THEN data[j] ELSE captions[j][Len(captions[j])]

\* one step of the task of post_eval_gen_task: from its start, or from the
\* return of reply_voice (which delivered the sample or raised)
PostStep(j, q) ==
    IF ppc[j] = "new"
    THEN /\ PostIter(j, 0, <<>>, q)
         /\ captions' = captions
    ELSE \E ok \in BOOLEAN :
            IF ok
            THEN /\ PostIter(j, pidx[j] + 1, <<reply_voice(j, pidx[j])>>, q)
                 /\ captions' = [captions EXCEPT ![j] = Append(@, Elide(LoopText(j)))]
            ELSE /\ PostFinish(j, TRUE, <<>>, q)
                 /\ captions' = captions

\* the task runs on the front loop
post_eval_gen_task_front(j) ==
    /\ fcur = 0
    /\ ploop[j] = "front"
    /\ ppc[j] \in {"new", "wait"}
    /\ PostStep(j, wq)
    /\ UNCHANGED <<now, hpc, samples_num, fname, fcur, fut, cb, evals, running,
                   prog, rep, ploop, submitted, started, finished, rlog,
                   oggname, payload, data, engine>>

\* the task runs on the worker loop: the reply of reply_voice makes it ready
reply_voice_done(j) ==
    /\ ploop[j] = "worker"
    /\ ppc[j] = "wait"
    /\ ppc' = [ppc EXCEPT ![j] = "woke"]
    /\ wq' = Enqueue(wq, <<"post", j>>)
    /\ UNCHANGED <<now, hpc, samples_num, fname, fcur, fut, cb, evals, running,
                   files, prog, rep, ploop, pidx, dpc, log, submitted, started,
                   finished, rlog,
                   oggname, payload, data, engine, captions>>

post_eval_gen_task_worker(j) ==
    /\ WorkerIdle
    /\ wq # <<>>
    /\ Head(wq) = <<"post", j>>
    /\ PostStep(j, Tail(wq))
    /\ UNCHANGED <<now, hpc, samples_num, fname, fcur, fut, cb, evals, running,
                   prog, rep, ploop, submitted, started, finished, rlog,
                   oggname, payload, data, engine>>

\* ---------------------------------------------------------------- delete_progress_msg task
DeleteTask(j) ==
    /\ dpc[j] = "new"
    /\ dpc' = [dpc EXCEPT ![j] = "done"]
    /\ log' = Logged(j, delete_progress_msg(j))
    /\ prog' = [prog EXCEPT ![j] = "removed"]

delete_progress_msg_front(j) ==
    /\ fcur = 0
    /\ ploop[j] = "front"
    /\ DeleteTask(j)
    /\ UNCHANGED <<now, hpc, samples_num, fname, fcur, fut, cb, evals, wq, running,
                   files, rep, ppc, ploop, pidx, submitted, started, finished, rlog,
                   oggname, payload, data, engine, captions>>

delete_progress_msg_worker(j) ==
    /\ WorkerIdle
    /\ wq # <<>>
    /\ Head(wq) = <<"del", j>>
    /\ wq' = Tail(wq)
    /\ DeleteTask(j)
    /\ UNCHANGED <<now, hpc, samples_num, fname, fcur, fut, cb, evals, running,
                   files, rep, ppc, ploop, pidx, submitted, started, finished, rlog,
                   oggname, payload, data, engine, captions>>

\* ---------------------------------------------------------------- specification
FrontStep(j) ==
    \/ start_gen_task(j)
    \/ add_done_callback(j)
    \/ handle_post_eval_gen_report_error(j)
    \/ post_eval_gen_report_error(j)
    \/ post_eval_gen_report_error_reply(j)
    \/ post_eval_gen_task_front(j)
    \/ delete_progress_msg_front(j)

WorkerStep(j) ==
    \/ run_gen_audio_begin(j)
    \/ run_gen_audio_end(j)
    \/ set_result(j)
    \/ post_eval_gen_task_worker(j)
    \/ delete_progress_msg_worker(j)

Next ==
    \/ \E j \in Jobs : gen_audio_cmd(j)
    \/ \E j \in Jobs : FrontStep(j)
    \/ \E j \in Jobs : WorkerStep(j)
    \/ \E j \in Jobs : reply_voice_done(j)

Spec == Init /\ [][Next]_vars

\* the three entry points that take a text
NextEntry ==
    \/ \E j \in Jobs : gen_audio_cmd(j)
    \/ \E j \in Jobs : gen_audio_inline(j)
    \/ \E j \in Jobs : retry_button(j)
    \/ \E j \in Jobs : FrontStep(j)
    \/ \E j \in Jobs : WorkerStep(j)
    \/ \E j \in Jobs : reply_voice_done(j)

EntrySpec == Init /\ [][NextEntry]_vars

\* the entry point that takes a voice message
NextVoice ==
    \/ \E j \in Jobs : gen_audio_from_voice(j)
    \/ \E j \in Jobs : gen_audio_from_voice_load(j)
    \/ \E j \in Jobs : FrontStep(j)
    \/ \E j \in Jobs : WorkerStep(j)
    \/ \E j \in Jobs : reply_voice_done(j)

VoiceSpec == Init /\ [][NextVoice]_vars

\* both loops keep running and every network call returns or raises
FairSpec ==
    /\ Spec
    /\ \A j \in Jobs : WF_vars(FrontStep(j))
    /\ \A j \in Jobs : WF_vars(WorkerStep(j))
    /\ \A j \in Jobs : WF_vars(reply_voice_done(j))

\* ---------------------------------------------------------------- job states
Submitted(j) == hpc[j] \in {"submitted", "registered"}

Running(j) == j \in running

\* tts_audio_from_text of job j raised / returned
SynthRaised(j) == rep[j] # "none"

SynthOk(j) == (\E i \in 1..Len(finished) : finished[i] = j) /\ rep[j] = "none"

\* a clear_dir done for job j, by either route
Clears(j) == Count(j, "clear_post") + Count(j, "clear_report")

\* the terminal state of the job: the removal of its progress message was
\* attempted and its cleanup has emptied the directory
CleanedUp(j) == Count(j, "remove") >= 1 /\ Clears(j) >= 1

In(s, x) == \E i \in 1..Len(s) : s[i] = x

IsPrefix(s, t) == Len(s) <= Len(t) /\ \A i \in 1..Len(s) : s[i] = t[i]

\* i was submitted to the worker loop before j
SubmittedBefore(i, j) ==
    \E a, b \in 1..Len(submitted) : a < b /\ submitted[a] = i /\ submitted[b] = j

Queued(j) == \E i \in 1..Len(wq) : wq[i] = <<"run", j>>

\* the routes of the front context
SuccessRoute(j) == ppc[j] # "none"

FailureRoute(j) == rep[j] \in {"task", "deleted", "done"}

\* C1: at no instant are two jobs executing run_gen_audio
C1_MutualExclusion == Cardinality(running) <= 1

\* a job is executing while another one, submitted meanwhile, waits in the queue
C1_Witness == \E i, j \in Jobs : i # j /\ Running(i) /\ Queued(j)

\* C2: the jobs begin and finish run_gen_audio in the order of their submission
C2_FifoExecution == IsPrefix(started, submitted) /\ IsPrefix(finished, submitted)

\* two jobs, submitted in the reverse order of their requests, have both run
C2_Witness ==
    /\ Len(submitted) >= 2
    /\ finished = submitted
    /\ submitted[1] > submitted[2]

\* C3 as stated: a job starts on the worker only after every job submitted
\* before it has reached CleanedUp
C3_StartsAfterCleanedUp ==
    \A i, j \in Jobs :
        SubmittedBefore(i, j) /\ In(started, j) => CleanedUp(i)

\* C3 amended: a job starts on the worker only after run_gen_audio has
\* returned for every job submitted before it
C3_StartsAfterReturned ==
    \A i, j \in Jobs :
        SubmittedBefore(i, j) /\ In(started, j) => In(finished, i)

\* a job has started while an earlier one has returned but is not CleanedUp
C3_Witness ==
    \E i, j \in Jobs :
        /\ SubmittedBefore(i, j)
        /\ In(started, j)
        /\ In(finished, i)
        /\ ~CleanedUp(i)

\* C4: for every job exactly one of the success route and the failure route
\* is run, exactly once: never both
C4_ExactlyOneRoute ==
    \A j \in Jobs :
        /\ ~(SuccessRoute(j) /\ FailureRoute(j))
        /\ evals[j] <= 1

\* C5: the removal of the progress message of a job is performed at most
\* once, and exactly once when the job is done
C5_RemovedExactlyOnce ==
    \A j \in Jobs :
        /\ Count(j, "remove") <= 1
        /\ ppc[j] \in {"done", "raised"} /\ dpc[j] = "done" => Count(j, "remove") = 1

\* a job whose files another job's cleanup must leave alone: synthesized, its
\* own post_eval_gen_task has not cleaned up yet, and its files are not files
\* of the other job as well
PendingDelivery(j) == SynthOk(j) /\ ppc[j] \in {"none", "new", "wait", "woke"}

\* C6: the cleanup of one job never deletes files of another job that is
\* still pending
C6_CleanupKeepsOthersFiles ==
    [][\A i, j \in Jobs :
          /\ i # j
          /\ Submitted(i)
          /\ fname[i] # fname[j]
          /\ Clears(i)' > Clears(i)
          /\ PendingDelivery(j)
          => ResultFiles(j) \cap files \subseteq files']_vars

\* C7: every submitted job eventually reaches CleanedUp, on the success path,
\* after an engine failure and after a delivery failure, when both loops keep
\* running and every call returns or raises
C7_EventuallyCleanedUp == \A j \in Jobs : Submitted(j) ~> CleanedUp(j)


\* a job was cleaned up after a delivery that failed in the middle of the fan-out
C7_Witness ==
    \E j \in Jobs :
        /\ SynthOk(j)
        /\ ppc[j] = "raised"
        /\ Len(Delivered(j)) >= 1
        /\ CleanedUp(j)

\* failure notices sent to the requester of job j
Notices(j) == Count(j, "notice_failed") + Count(j, "notice_error")

\* C8: when the transcription or synthesis call of a job raises, exactly one
\* failure notice is sent for the job, no result message is delivered for it
\* and no result file of it remains afterwards
C8_OneNoticeOnEngineFailure ==
    \A j \in Jobs :
        SynthRaised(j) =>
            /\ Notices(j) <= 1
            /\ Delivered(j) = <<>>
            /\ rep[j] = "done" => Notices(j) = 1 /\ ResultFiles(j) \cap files = {}

\* the delivery error was raised for job j
DeliveryRaised(j) == Count(j, "raise") >= 1

\* what C9 says of the deliveries: those before the failing sample stand, in
\* order, and the failing sample and the later ones are not delivered
PartialFanOut(j) ==
    /\ Len(Delivered(j)) < samples_num[j]
    /\ \A i \in 1..Len(Delivered(j)) : Delivered(j)[i] = i - 1

\* C9 as stated: after a failure at sample k the deliveries 0..k-1 stand, the
\* later samples are not delivered, and the delivery error is raised only
\* after the progress message was removed and the directory cleared
C9_RaisedAfterCleanup ==
    \A j \in Jobs :
        SynthOk(j) /\ DeliveryRaised(j) =>
            /\ PartialFanOut(j)
            /\ FirstOf(j, "remove") \in 1..(FirstOf(j, "raise") - 1)
            /\ FirstOf(j, "clear_post") \in 1..(FirstOf(j, "raise") - 1)

\* C9 amended: after a failure at sample k the deliveries 0..k-1 stand, the
\* later samples are not delivered, and the delivery error is raised only
\* after the directory was cleared and the removal of the progress message
\* was scheduled as a task; the removal itself is performed after the raise
C9_RaisedAfterClearAndSchedule ==
    \A j \in Jobs :
        SynthOk(j) /\ DeliveryRaised(j) =>
            /\ PartialFanOut(j)
            /\ FirstOf(j, "sched_delete") \in 1..(FirstOf(j, "raise") - 1)
            /\ FirstOf(j, "clear_post") \in 1..(FirstOf(j, "raise") - 1)
            /\ dpc[j] # "none"
            /\ FirstOf(j, "remove") # 0 => FirstOf(j, "remove") > FirstOf(j, "raise")

\* the delivery of the second sample failed, the first one stands, and the
\* progress message was removed afterwards
C9_Witness ==
    \E j \in Jobs :
        /\ SynthOk(j)
        /\ DeliveryRaised(j)
        /\ samples_num[j] = 2
        /\ Delivered(j) = <<0>>
        /\ dpc[j] = "done"

\* the result messages of job j, in the order they were sent
ResultMessages(j) == SelectSeq(log[j], LAMBDA ev : ev[1] = "deliver")

\* C10: a job with sample count n whose synthesis succeeded and whose
\* deliveries did not raise has sent exactly n result messages, for the
\* samples 0..n-1 in this order, each a reply to the originating message and
\* each with the regenerate control
C10_FanOutComplete ==
    \A j \in Jobs :
        SynthOk(j) /\ ppc[j] = "done" =>
            ResultMessages(j) =
                [i \in 1..samples_num[j] |-> <<"deliver", i - 1, message_id(j), "Regenerate">>]

\* a job with two samples was delivered in full
C10_Witness ==
    \E j \in Jobs :
        /\ SynthOk(j)
        /\ ppc[j] = "done"
        /\ samples_num[j] = 2
        /\ Len(ResultMessages(j)) = 2

\* C11: a job with sample count 0 delivers no result message and still
\* schedules and performs the removal of the progress message and clears the
\* temporary files
C11_ZeroSamples ==
    \A j \in Jobs :
        Submitted(j) /\ samples_num[j] = 0 =>
            /\ Delivered(j) = <<>>
            /\ ppc[j] \in {"none", "new", "done"}
            /\ ppc[j] = "done" =>
                   Count(j, "sched_delete") = 1 /\ Count(j, "clear_post") = 1
            /\ dpc[j] = "done" => Count(j, "remove") >= 1

\* a synthesized job with no sample is done and its progress message removed
C11_Witness ==
    \E j \in Jobs :
        /\ SynthOk(j)
        /\ samples_num[j] = 0
        /\ ppc[j] = "done"
        /\ dpc[j] = "done"

\* C14: a job whose transcription or synthesis call raises does not stop the
\* worker: every submitted job, before or after it, is executed
C14_WorkerSurvivesFailure == \A j \in Jobs : Submitted(j) ~> In(finished, j)

\* a job submitted after one whose engine call raised has been executed
C14_Witness ==
    \E i, j \in Jobs :
        /\ SynthRaised(i)
        /\ SubmittedBefore(i, j)
        /\ In(finished, j)

\* C15: app.create_task for post_eval_gen_task is never called from the
\* worker thread
C15_CreateTaskOnFront == \A j \in Jobs : ploop[j] # "worker"

\* update.effective_user.id: the requests come from one requester
user_id(j) == 1

\* filename_result of start_gen_task, without directory and extension
filename_result(j) == <<user_id(j), fname[j]>>

\* C16: any two distinct jobs have distinct output path prefixes
C16_DistinctPrefixes ==
    \A i, j \in Jobs :
        i # j /\ Submitted(i) /\ Submitted(j) => filename_result(i) # filename_result(j)

\* every task of job j has ended: run_gen_audio, both routes, the removal
Terminal(j) ==
    /\ ppc[j] \in {"done", "raised"}
    /\ dpc[j] = "done"
    /\ rep[j] \in {"none", "done"}

\* C17: once a job has reached its terminal state no temporary file under its
\* output path prefix exists
C17_NoFilesAfterTerminal ==
    \A j \in Jobs : Terminal(j) => ResultFiles(j) \cap files = {}

\* C19: eval_gen_task is called at most once per job, and once when the job
\* has finished and the callback is registered, whichever came first
C19_CallbackOnce ==
    \A j \in Jobs :
        /\ evals[j] <= 1
        /\ hpc[j] = "registered" /\ fut[j] = "done" => evals[j] = 1

\* the job finished before add_done_callback: the callback ran in the front thread
C19_Witness == \E j \in Jobs : evals[j] = 1 /\ ploop[j] = "front"

\* C12: every caption a job has sent is its text cut to MAX_CHARS_NUM
\* characters and followed by "..." when the text is longer than
\* MAX_CHARS_NUM, and the text unchanged otherwise; every result message
\* sent has its caption
C12_CaptionElided ==
    \A j \in Jobs :
        /\ Len(captions[j]) = Len(ResultMessages(j))
        /\ \A i \in 1..Len(captions[j]) :
              captions[j][i] =
                  IF Len(data[j]) > MAX_CHARS_NUM
                  THEN [n \in 1..(MAX_CHARS_NUM + 3) |->
                           IF n <= MAX_CHARS_NUM THEN data[j][n] ELSE 46]
                  ELSE data[j]

\* a text beyond the limit was delivered twice, the second caption made from
\* the first one
C12_Witness ==
    \E j \in Jobs : Len(data[j]) > MAX_CHARS_NUM /\ Len(captions[j]) = 2

\* C13: a job handed to the worker loop with a text has a text that
\* validate_text accepts, and a request that was answered with an error has
\* no progress message
C13_ValidatedBeforeSubmit ==
    \A j \in Jobs :
        /\ Submitted(j) /\ payload[j] = "text" => validate_text(data[j])
        /\ hpc[j] = "rejected" => prog[j] = "none"

\* the transcription of the audio raised, or was rejected by validate_text
BadTranscription(j) ==
    /\ payload[j] = "audio"
    /\ In(finished, j)
    /\ IsArray(data[j]) \/ ~validate_text(data[j])

\* C18: for a job with raw audio whose transcription raised or was rejected,
\* tts_audio_from_text was not called, the failure route was handed to the
\* front loop, and run_gen_audio returned: the job has left the worker and
\* its result is set or about to be
C18_BadTranscriptionFails ==
    \A j \in Jobs :
        BadTranscription(j) =>
            /\ engine[j] = "skipped"
            /\ SynthRaised(j)
            /\ ~Running(j)
            /\ fut[j] = "done" \/ In(wq, <<"setres", j>>)

\* a rejected transcription was reported to the requester
C18_Witness ==
    \E j \in Jobs :
        /\ BadTranscription(j)
        /\ ~IsArray(data[j])
        /\ rep[j] = "done"
        /\ Count(j, "notice_failed") = 1

\* C20: when gen_audio_from_voice leaves the download, by either exit, the
\* temporary voice file is not in the directory; and a handler that raised
\* has created no progress message and submitted no job
C20_VoiceFileRemoved ==
    [][\A j \in Jobs :
          /\ hpc[j] = "voice" /\ hpc'[j] # "voice" => temp_file(j) \notin files'
          /\ hpc'[j] = "raised" =>
                /\ prog'[j] = "none"
                /\ payload'[j] = "none"
                /\ ~In(submitted', j)]_vars

\* one voice request raised at the download and another was accepted, and the
\* file of neither is left
C20_Witness ==
    \E i, j \in Jobs :
        /\ hpc[i] = "raised" /\ oggname[i] >= 0
        /\ payload[j] = "audio"
        /\ temp_file(i) \notin files /\ temp_file(j) \notin files

====
